---- MODULE Spec2Model ----
(***************************************************************************)
(* Per-chunk loudness analysis (src/core/wasm/src/lib.rs).                 *)
(*                                                                         *)
(* analyze_audio_rms partitions a PCM buffer with chunks_exact, reduces    *)
(* every chunk with calculate_rms and converts it with rms_to_dbfs.        *)
(*                                                                         *)
(* Floating point.  TLC has 32-bit integers and no reals, so f32 and f64   *)
(* are modelled as decimal floating-point numbers with the IEEE-754        *)
(* structure kept: a class (finite, infinite, NaN), a sign, a normalised   *)
(* mantissa and an exponent, round-to-nearest-even after every operation,  *)
(* overflow to infinity, NaN propagation.  f32 carries 2 significant       *)
(* decimal digits (mantissa 10..99) and f64 carries 4 (mantissa            *)
(* 1000..9999), so that, as in the code, the square of an f32 is exact in  *)
(* f64.  A float is the record [cls, sg, m, e] with value sg * m * 10^e.   *)
(*                                                                         *)
(* usize.  The machine word is modelled with UsizeBits bits.               *)
(***************************************************************************)
EXTENDS Integers, Sequences, FiniteSets

\* ------------------------------------------------------------------------
\* Bounds of the model
\* ------------------------------------------------------------------------

\* Longest sample buffer (and longest chunk handed to a pure function).
MaxLen == 3

\* Width of usize in the model.
UsizeBits == 5

\* ------------------------------------------------------------------------
\* Decimal floating point
\* ------------------------------------------------------------------------

NaN == [cls |-> "nan", sg |-> 1, m |-> 0, e |-> 0]

Inf(s) == [cls |-> "inf", sg |-> s, m |-> 0, e |-> 0]

Zero == [cls |-> "fin", sg |-> 1, m |-> 0, e |-> 0]

Fin(s, m, e) == [cls |-> "fin", sg |-> s, m |-> m, e |-> e]

RECURSIVE Pow10(_)
Pow10(n) == IF n <= 0 THEN 1 ELSE 10 * Pow10(n - 1)

RECURSIVE Pow2(_)
Pow2(n) == IF n <= 0 THEN 1 ELSE 2 * Pow2(n - 1)

RECURSIVE NumDigits(_)
NumDigits(n) == IF n < 10 THEN 1 ELSE 1 + NumDigits(n \div 10)

\* Largest decimal exponent of the leading digit of a finite f32 / f64
\* (f32::MAX is about 3.4e38, f64::MAX about 1.8e308).
MaxExp(p) == IF p = 2 THEN 38 ELSE 308

\* sg * M * 10^E (M > 0; sticky: a non-zero part below M was cut off) rounded
\* to nearest, ties to even, to p significant digits; infinity on overflow.
RoundTo(s, M, E, sticky, p) ==
    LET d == NumDigits(M)
        x == d - p
        q == IF x > 0 THEN M \div Pow10(x) ELSE M * Pow10(-x)
        r == IF x > 0 THEN M % Pow10(x) ELSE 0
        half == IF x > 0 THEN 5 * Pow10(x - 1) ELSE 1
        up == /\ x > 0
              /\ \/ r > half
                 \/ r = half /\ (sticky \/ q % 2 = 1)
        q1 == IF up THEN q + 1 ELSE q
        carry == q1 = Pow10(p)
        mm == IF carry THEN Pow10(p - 1) ELSE q1
        ee == IF carry THEN E + x + 1 ELSE E + x
    IN  IF ee + p - 1 > MaxExp(p) THEN Inf(s) ELSE Fin(s, mm, ee)

\* |a| < |b| for finite a, b of the same precision.
AbsLt(a, b) ==
    IF b.m = 0 THEN FALSE
    ELSE IF a.m = 0 THEN TRUE
    ELSE a.e < b.e \/ (a.e = b.e /\ a.m < b.m)

\* a < b (IEEE: false when either is NaN).
FLt(a, b) ==
    IF a.cls = "nan" \/ b.cls = "nan" THEN FALSE
    ELSE IF a = b THEN FALSE
    ELSE IF a.cls = "inf" THEN a.sg = -1
    ELSE IF b.cls = "inf" THEN b.sg = 1
    ELSE IF a.m = 0 THEN b.sg = 1
    ELSE IF b.m = 0 THEN a.sg = -1
    ELSE IF a.sg # b.sg THEN a.sg = -1
    ELSE IF a.sg = 1 THEN AbsLt(a, b) ELSE AbsLt(b, a)

\* a >= b (IEEE: false when either is NaN).
FGe(a, b) == a.cls # "nan" /\ b.cls # "nan" /\ ~FLt(a, b)

\* f32::max: the larger argument; if one argument is NaN, the other.
FMax(a, b) ==
    IF a.cls = "nan" THEN b
    ELSE IF b.cls = "nan" THEN a
    ELSE IF FLt(a, b) THEN b ELSE a

\* a * b rounded to p digits.
FMul(a, b, p) ==
    IF a.cls = "nan" \/ b.cls = "nan" THEN NaN
    ELSE IF a.cls = "inf" \/ b.cls = "inf"
         THEN IF (a.cls = "fin" /\ a.m = 0) \/ (b.cls = "fin" /\ b.m = 0)
              THEN NaN ELSE Inf(a.sg * b.sg)
    ELSE IF a.m = 0 \/ b.m = 0 THEN Zero
    ELSE RoundTo(a.sg * b.sg, a.m * b.m, a.e + b.e, FALSE, p)

\* `sample as f64`: widening is exact.
Widen(a) == IF a.cls = "fin" /\ a.m # 0 THEN Fin(a.sg, a.m * 100, a.e - 2) ELSE a

\* `x as f32`: narrowing rounds to f32 precision.
Narrow(a) ==
    IF a.cls = "fin" /\ a.m # 0 THEN RoundTo(a.sg, a.m, a.e, FALSE, 2) ELSE a

\* a + b in f64 for a, b >= 0 (the only sums the code forms are sums of
\* squares).  When the exponents are 5 or more apart the smaller operand is
\* below half a unit in the last place of the larger and is absorbed.
FAdd64(a, b) ==
    IF a.cls = "nan" \/ b.cls = "nan" THEN NaN
    ELSE IF a.cls = "inf" \/ b.cls = "inf" THEN Inf(1)
    ELSE IF a.m = 0 THEN b
    ELSE IF b.m = 0 THEN a
    ELSE LET lo == IF a.e <= b.e THEN a ELSE b
             hi == IF a.e <= b.e THEN b ELSE a
             d == hi.e - lo.e
         IN  IF d >= 5 THEN hi
             ELSE RoundTo(1, hi.m * Pow10(d) + lo.m, lo.e, FALSE, 4)

\* a / n in f64 for a >= 0 and an integer n >= 1 (`chunk.len() as f64`).
FDiv64(a, n) ==
    IF a.cls # "fin" \/ a.m = 0 THEN a
    ELSE LET M == a.m * 10000
         IN  RoundTo(1, M \div n, a.e - 4, M % n # 0, 4)

RECURSIVE ISqrtIn(_, _, _)
ISqrtIn(n, lo, hi) ==
    IF lo >= hi THEN lo
    ELSE LET mid == (lo + hi + 1) \div 2
         IN  IF mid * mid <= n THEN ISqrtIn(n, mid, hi) ELSE ISqrtIn(n, lo, mid - 1)

\* floor(sqrt(n)) for 0 <= n < 10^9.
ISqrt(n) == ISqrtIn(n, 0, 31622)

\* f64::sqrt, correctly rounded; NaN for a negative argument.
FSqrt64(a) ==
    IF a.cls = "nan" THEN NaN
    ELSE IF a.cls = "inf" THEN IF a.sg = 1 THEN a ELSE NaN
    ELSE IF a.m = 0 THEN Zero
    ELSE IF a.sg = -1 THEN NaN
    ELSE LET odd == a.e % 2 = 1
             M == IF odd THEN a.m * 100000 ELSE a.m * 10000
             E == IF odd THEN a.e - 5 ELSE a.e - 4
             r == ISqrt(M)
         IN  IF r < 10000
             THEN IF M - r * r > r THEN RoundTo(1, r + 1, E \div 2, FALSE, 4)
                                   ELSE Fin(1, r, E \div 2)
             ELSE RoundTo(1, r, E \div 2, r * r # M, 4)

\* 10^4 * log10(m / 10) for the f32 mantissas m = 10..99, to the nearest unit.
Log10Table ==
    << 0, 414, 792, 1139, 1461, 1761, 2041, 2304, 2553, 2788,
       3010, 3222, 3424, 3617, 3802, 3979, 4150, 4314, 4472, 4624,
       4771, 4914, 5051, 5185, 5315, 5441, 5563, 5682, 5798, 5911,
       6021, 6128, 6232, 6335, 6435, 6532, 6628, 6721, 6812, 6902,
       6990, 7076, 7160, 7243, 7324, 7404, 7482, 7559, 7634, 7709,
       7782, 7853, 7924, 7993, 8062, 8129, 8195, 8261, 8325, 8388,
       8451, 8513, 8573, 8633, 8692, 8751, 8808, 8865, 8921, 8976,
       9031, 9085, 9138, 9191, 9243, 9294, 9345, 9395, 9445, 9494,
       9542, 9590, 9638, 9685, 9731, 9777, 9823, 9868, 9912, 9956 >>

\* f32::log10: NaN below zero, -infinity at zero, +infinity at +infinity.
FLog10(a) ==
    IF a.cls = "nan" THEN NaN
    ELSE IF a.cls = "inf" THEN IF a.sg = 1 THEN a ELSE NaN
    ELSE IF a.m = 0 THEN Inf(-1)
    ELSE IF a.sg = -1 THEN NaN
    ELSE LET V == (a.e + 1) * 10000 + Log10Table[a.m - 9]
         IN  IF V = 0 THEN Zero
             ELSE RoundTo(IF V < 0 THEN -1 ELSE 1, IF V < 0 THEN -V ELSE V, -4, FALSE, 2)

\* ------------------------------------------------------------------------
\* The numeric core
\* ------------------------------------------------------------------------

\* const MIN_RMS: f32 = 1.0e-10
MIN_RMS == Fin(1, 10, -11)

\* The literal 20.0 of rms_to_dbfs.
Twenty == Fin(1, 20, 0)

\* chunk.iter().map(|&sample| (sample as f64) * (sample as f64)).sum(), over
\* the first n samples, accumulated left to right from 0.0.
RECURSIVE SumSq(_, _)
SumSq(chunk, n) ==
    IF n = 0 THEN Zero
    ELSE FAdd64(SumSq(chunk, n - 1), FMul(Widen(chunk[n]), Widen(chunk[n]), 4))

\* mutant: the sum of squares is not averaged before the square root
\* (the measured level then depends on the number of samples)
calculate_rms_no_mean(chunk) ==
    IF Len(chunk) = 0 THEN Zero
    ELSE Narrow(FSqrt64(SumSq(chunk, Len(chunk))))

calculate_rms(chunk) ==
    IF Len(chunk) = 0 THEN Zero
    ELSE Narrow(FSqrt64(FDiv64(SumSq(chunk, Len(chunk)), Len(chunk))))

\* mutant: the clamp special-cases exactly zero instead of taking the max
rms_to_dbfs_zero_branch(rms) ==
    LET rms_clamped == IF rms = Zero THEN MIN_RMS ELSE rms
    IN  FMul(Twenty, FLog10(rms_clamped), 2)

\* mutant: no clamp before the logarithm
rms_to_dbfs_no_clamp(rms) == FMul(Twenty, FLog10(rms), 2)

\* mutant: the sign of the conversion is inverted
rms_to_dbfs_negated(rms) ==
    LET rms_clamped == FMax(rms, MIN_RMS)
    IN  FMul(Fin(-1, 20, 0), FLog10(rms_clamped), 2)

rms_to_dbfs(rms) ==
    LET rms_clamped == FMax(rms, MIN_RMS)
    IN  FMul(Twenty, FLog10(rms_clamped), 2)

\* ------------------------------------------------------------------------
\* Inputs
\* ------------------------------------------------------------------------

\* Sample values: 0.0, 1.0, 0.5, -0.5, 1.0e-6, 3.0e-11 (non-zero, below
\* MIN_RMS), NaN and +infinity.
Samples ==
    { Zero, Fin(1, 10, -1), Fin(1, 50, -2), Fin(-1, 50, -2), Fin(1, 10, -7),
      Fin(1, 30, -12), NaN, Inf(1) }

RECURSIVE SeqsOfLen(_, _)
SeqsOfLen(S, n) ==
    IF n = 0 THEN { <<>> }
    ELSE { Append(q, x) : q \in SeqsOfLen(S, n - 1), x \in S }

\* Every sample buffer of at most MaxLen samples.
Buffers == UNION { SeqsOfLen(Samples, n) : n \in 0..MaxLen }

\* usize::MAX
UsizeMax == Pow2(UsizeBits) - 1

\* Chunk sizes: zero, sizes around the buffer length, and the largest words.
ChunkSizes == (0..(MaxLen + 1)) \cup { UsizeMax - 1, UsizeMax }

\* Amplitudes handed to rms_to_dbfs on its own: around MIN_RMS on both sides,
\* of either sign, plus zero and the non-finite values.
Amplitudes ==
    { Zero, NaN, Inf(1), Inf(-1) } \cup
    { Fin(s, m, e) : s \in {1, -1}, m \in {10, 11, 47, 99}, e \in { -13, -12, -11, -6, -1, 2 } }

\* Gains k > 1 applied to a chunk: 1.1, 2.0, 10.0.
Gains == { Fin(1, 11, -1), Fin(1, 20, -1), Fin(1, 10, 0) }

\* Every sample of the chunk multiplied by k, in f32.
Scale(chunk, k) == [ i \in 1..Len(chunk) |-> FMul(chunk[i], k, 2) ]

\* ------------------------------------------------------------------------
\* State
\* ------------------------------------------------------------------------

VARIABLES
    pc,                 \* position in analyze_audio_rms, or in a direct call
    pcm_vec,            \* the sample buffer (pcm_data.to_vec())
    chunk_size_samples, \* the chunk size argument
    total_samples,      \* pcm_vec.len()
    num_chunks,         \* the capacity computed for dbfs_results
    consumed,           \* samples chunks_iter has handed out so far
    chunk,              \* the slice last handed to calculate_rms
    rms,                \* the local `rms` (argument of rms_to_dbfs)
    dbfs,               \* the value rms_to_dbfs returned last
    dbfs_results,       \* the Vec<f32> being filled
    result,             \* the Float32Array returned
    visited,            \* history: (offset, length) of every chunk formed
    divided,            \* history: `/ chunk_size_samples` was evaluated
    overflowed          \* history: the usize addition exceeded usize::MAX

vars == << pc, pcm_vec, chunk_size_samples, total_samples, num_chunks, consumed,
           chunk, rms, dbfs, dbfs_results, result, visited, divided, overflowed >>

\* ------------------------------------------------------------------------
\* analyze_audio_rms
\* ------------------------------------------------------------------------

\* mutant: a buffer shorter than one chunk is treated as degenerate too
IsDegenerateShort(total, size) == total = 0 \/ size = 0 \/ total < size

\* mutant: the early return requires both inputs to be degenerate
IsDegenerateBoth(total, size) == total = 0 /\ size = 0

\* total_samples == 0 || chunk_size_samples == 0
IsDegenerate(total, size) == total = 0 \/ size = 0

\* mutant: the chunk taken at offset `at` starts one sample early
SliceOverlapping(at, len) ==
    SubSeq(pcm_vec, IF at > 0 THEN at ELSE 1, IF at > 0 THEN at + len - 1 ELSE len)

\* pcm_slice[at .. at + len]
Slice(at, len) == SubSeq(pcm_vec, at + 1, at + len)

\* mutant: the remainder is read as an empty slice
RemainderLenDropped == Len(<< >>)

\* chunks_iter.remainder().len(): what chunks_exact left over.
RemainderLen == total_samples - consumed

Init ==
    /\ pc = "entry"
    /\ pcm_vec \in Buffers
    /\ chunk_size_samples \in ChunkSizes
    /\ total_samples = 0
    /\ num_chunks = 0
    /\ consumed = 0
    /\ chunk = << >>
    /\ rms = Zero
    /\ dbfs = Zero
    /\ dbfs_results = << >>
    /\ result = << >>
    /\ visited = << >>
    /\ divided = FALSE
    /\ overflowed = FALSE

\* Lines 73-81: take the length; return an empty array for degenerate input.
Enter ==
    /\ pc = "entry"
    /\ total_samples' = Len(pcm_vec)
    /\ IF IsDegenerate(Len(pcm_vec), chunk_size_samples)
       THEN pc' = "done"
       ELSE pc' = "count"
    /\ result' = << >>
    /\ UNCHANGED << pcm_vec, chunk_size_samples, num_chunks, consumed, chunk, rms,
                    dbfs, dbfs_results, visited, divided, overflowed >>

\* Lines 84-85: num_chunks = (total_samples + chunk_size_samples - 1)
\* / chunk_size_samples in usize arithmetic.  When the sum exceeds usize::MAX
\* the build decides: with overflow checks the function panics, without them
\* the sum wraps.  Dividing by zero panics in every build.
CountChunks ==
    /\ pc = "count"
    /\ LET sum == total_samples + chunk_size_samples
           ovf == sum > UsizeMax
           wrapped == (sum - 1) % (UsizeMax + 1)
       IN  /\ overflowed' = ovf
           /\ \/ /\ ovf
                 /\ pc' = "panicked"
                 /\ UNCHANGED << num_chunks, divided >>
              \/ /\ divided' = TRUE
                 /\ IF chunk_size_samples = 0
                    THEN pc' = "panicked" /\ UNCHANGED num_chunks
                    ELSE pc' = "loop" /\ num_chunks' = wrapped \div chunk_size_samples
    /\ UNCHANGED << pcm_vec, chunk_size_samples, total_samples, consumed, chunk, rms,
                    dbfs, dbfs_results, result, visited >>

\* Lines 94-97: one iteration over chunks_exact: the next full chunk.
LoopChunk ==
    /\ pc = "loop"
    /\ total_samples - consumed >= chunk_size_samples
    /\ chunk' = Slice(consumed, chunk_size_samples)
    /\ rms' = calculate_rms(chunk')
    /\ dbfs' = rms_to_dbfs(rms')
    /\ dbfs_results' = Append(dbfs_results, dbfs')
    /\ visited' = Append(visited, [off |-> consumed, len |-> chunk_size_samples])
    /\ consumed' = consumed + chunk_size_samples
    /\ UNCHANGED << pc, pcm_vec, chunk_size_samples, total_samples, num_chunks,
                    result, divided, overflowed >>

\* Line 94: chunks_exact is exhausted when less than a full chunk is left.
LoopEnd ==
    /\ pc = "loop"
    /\ total_samples - consumed < chunk_size_samples
    /\ pc' = "remainder"
    /\ UNCHANGED << pcm_vec, chunk_size_samples, total_samples, num_chunks, consumed,
                    chunk, rms, dbfs, dbfs_results, result, visited, divided,
                    overflowed >>

\* Lines 100-108: the remainder, if not empty, is one more chunk; then the
\* results are copied into the returned array.
Remainder ==
    /\ pc = "remainder"
    /\ IF RemainderLen # 0
       THEN /\ chunk' = Slice(consumed, RemainderLen)
            /\ rms' = calculate_rms(chunk')
            /\ dbfs' = rms_to_dbfs(rms')
            /\ dbfs_results' = Append(dbfs_results, dbfs')
            /\ visited' = Append(visited, [off |-> consumed, len |-> RemainderLen])
            /\ consumed' = consumed + RemainderLen
       ELSE UNCHANGED << chunk, rms, dbfs, dbfs_results, visited, consumed >>
    /\ result' = dbfs_results'
    /\ pc' = "done"
    /\ UNCHANGED << pcm_vec, chunk_size_samples, total_samples, num_chunks, divided,
                    overflowed >>

Next == Enter \/ CountChunks \/ LoopChunk \/ LoopEnd \/ Remainder

Spec == Init /\ [][Next]_vars

\* ------------------------------------------------------------------------
\* calculate_rms and rms_to_dbfs called on their own
\* ------------------------------------------------------------------------

\* Either a chunk for calculate_rms (whose result then goes through
\* rms_to_dbfs, as in the loop body), or an amplitude for rms_to_dbfs alone.
InitFn ==
    /\ \/ pc = "rms_call" /\ chunk \in Buffers /\ rms = Zero
       \/ pc = "dbfs_call" /\ chunk = << >> /\ rms \in Amplitudes
    /\ pcm_vec = << >>
    /\ chunk_size_samples = 0
    /\ total_samples = 0
    /\ num_chunks = 0
    /\ consumed = 0
    /\ dbfs = Zero
    /\ dbfs_results = << >>
    /\ result = << >>
    /\ visited = << >>
    /\ divided = FALSE
    /\ overflowed = FALSE

\* let rms = calculate_rms(chunk)
CallRms ==
    /\ pc = "rms_call"
    /\ rms' = calculate_rms(chunk)
    /\ pc' = "rms_done"
    /\ UNCHANGED << pcm_vec, chunk_size_samples, total_samples, num_chunks, consumed,
                    chunk, dbfs, dbfs_results, result, visited, divided, overflowed >>

\* rms_to_dbfs(rms)
CallDbfs ==
    /\ pc \in { "rms_done", "dbfs_call" }
    /\ dbfs' = rms_to_dbfs(rms)
    /\ pc' = IF pc = "rms_done" THEN "pipeline_done" ELSE "dbfs_done"
    /\ UNCHANGED << pcm_vec, chunk_size_samples, total_samples, num_chunks, consumed,
                    chunk, rms, dbfs_results, result, visited, divided, overflowed >>

NextFn == CallRms \/ CallDbfs

SpecFn == InitFn /\ [][NextFn]_vars

\* ------------------------------------------------------------------------
\* Properties
\* ------------------------------------------------------------------------

\* -200.0, the value the specification gives for 20 * log10(1e-10).
FloorDb == Fin(-1, 20, 1)

\* ceil(a / b) for b >= 1.
CeilDiv(a, b) == (a \div b) + (IF a % b = 0 THEN 0 ELSE 1)

Min(a, b) == IF a <= b THEN a ELSE b

\* |a|
Abs(a) == [a EXCEPT !.sg = 1]

\* The i-th (1-based) contiguous block of the buffer for chunk size c.
Block(i, c) == SubSeq(pcm_vec, (i - 1) * c + 1, Min(i * c, Len(pcm_vec)))

NonDegenerate == Len(pcm_vec) > 0 /\ chunk_size_samples >= 1

\* C1: for a non-empty buffer and a chunk size >= 1 the returned sequence has
\* exactly ceil(total_samples / chunk_size) elements.
C1_LengthIsCeil ==
    (pc = "done" /\ NonDegenerate)
        => Len(result) = CeilDiv(Len(pcm_vec), chunk_size_samples)

C1_Witness ==
    /\ pc = "done"
    /\ Len(pcm_vec) = 3
    /\ chunk_size_samples = 2
    /\ Len(result) = 2

\* C2: an empty buffer or a zero chunk size returns the empty sequence at
\* once: no chunk is formed, nothing is computed or pushed, and the division
\* by the chunk size is never evaluated.
C2_DegenerateReturnsEmpty ==
    (pc # "entry" /\ (Len(pcm_vec) = 0 \/ chunk_size_samples = 0))
        => /\ pc = "done"
           /\ result = << >>
           /\ dbfs_results = << >>
           /\ visited = << >>
           /\ chunk = << >>
           /\ ~divided

C2_Witness ==
    /\ pc = "done"
    /\ chunk_size_samples = 0
    /\ Len(pcm_vec) > 0
    /\ result = << >>

\* C3: element i of the results is rms_to_dbfs(calculate_rms(block i)), the
\* chunks are visited at increasing offsets starting at 0, and the returned
\* sequence is the results in that order.
C3_ElementIsBlockLevel ==
    NonDegenerate =>
        /\ \A i \in 1..Len(dbfs_results) :
              dbfs_results[i] = rms_to_dbfs(calculate_rms(Block(i, chunk_size_samples)))
        /\ \A i \in 1..Len(visited) : visited[i].off = (i - 1) * chunk_size_samples
        /\ Len(visited) = Len(dbfs_results)
        /\ pc = "done" =>
              result = [ i \in 1..CeilDiv(Len(pcm_vec), chunk_size_samples) |->
                           rms_to_dbfs(calculate_rms(Block(i, chunk_size_samples))) ]

C3_Witness ==
    /\ pc = "done"
    /\ Len(result) = 3
    /\ result[1] # result[2]
    /\ result[2] # result[3]
    /\ result[1] # result[3]

\* C4: the chunks cover the buffer exactly once: they are contiguous from
\* offset 0, every chunk but the last has chunk_size samples, the last one
\* has total mod chunk_size samples when that is non-zero and chunk_size
\* otherwise, and the lengths add up to the buffer length.
C4_PartitionExact ==
    (pc = "done" /\ NonDegenerate) =>
        LET n == Len(visited)
            r == Len(pcm_vec) % chunk_size_samples
        IN  /\ n >= 1
            /\ visited[1].off = 0
            /\ \A i \in 1..(n - 1) :
                  /\ visited[i].len = chunk_size_samples
                  /\ visited[i + 1].off = visited[i].off + visited[i].len
            /\ visited[n].len = (IF r = 0 THEN chunk_size_samples ELSE r)
            /\ visited[n].len > 0
            /\ visited[n].off + visited[n].len = Len(pcm_vec)

C4_Witness ==
    /\ pc = "done"
    /\ Len(pcm_vec) = 3
    /\ chunk_size_samples = 2
    /\ visited = << [off |-> 0, len |-> 2], [off |-> 2, len |-> 1] >>

C6_NeverFails ==
    NonDegenerate => (~overflowed /\ pc # "panicked")

\* C7 as stated: a chunk scaled by k > 1 gets a strictly greater level, or
\* the same level when that level is the floor.
C7_StrictlyGreaterOrFloor ==
    (pc = "pipeline_done" /\ chunk # << >>) =>
        \A k \in Gains :
            LET scaled == rms_to_dbfs(calculate_rms(Scale(chunk, k)))
            IN  FLt(dbfs, scaled) \/ (scaled = dbfs /\ dbfs = FloorDb)

\* C7 as amended: a chunk scaled by k > 1 never gets a smaller level.
C7_NeverDecreases ==
    (pc = "pipeline_done" /\ chunk # << >>) =>
        \A k \in Gains : FGe(rms_to_dbfs(calculate_rms(Scale(chunk, k))), dbfs)

C7_Witness ==
    /\ pc = "pipeline_done"
    /\ chunk = << Fin(-1, 50, -2), Fin(1, 10, -1) >>
    /\ \A k \in Gains : FLt(dbfs, rms_to_dbfs(calculate_rms(Scale(chunk, k))))

\* C8: calculate_rms gives 0.0 for an empty chunk and the root of the mean
\* square otherwise: for N >= 1 samples of one magnitude a (of either sign) it
\* gives a whatever N is, for finite samples it lies between the smallest and
\* the largest magnitude, and for [1.0, 0.5] it is sqrt(0.625) = 0.79.
C8_ConstantChunkRms ==
    pc \in { "rms_done", "pipeline_done" } =>
        /\ chunk = << >> => rms = Zero
        /\ (/\ chunk # << >>
            /\ \A i \in 1..Len(chunk) :
                  chunk[i].cls # "nan" /\ Abs(chunk[i]) = Abs(chunk[1]))
              => rms = Abs(chunk[1])
        /\ (chunk # << >> /\ \A i \in 1..Len(chunk) : chunk[i].cls = "fin")
              => /\ \E i \in 1..Len(chunk) : FGe(rms, Abs(chunk[i]))
                 /\ \E i \in 1..Len(chunk) : FGe(Abs(chunk[i]), rms)
        /\ chunk = << Fin(1, 10, -1), Fin(1, 50, -2) >> => rms = Fin(1, 79, -2)

C8_Witness ==
    /\ pc = "rms_done"
    /\ chunk = << Fin(1, 50, -2), Fin(-1, 50, -2), Fin(-1, 50, -2) >>
    /\ rms = Fin(1, 50, -2)

\* C9: the level rms_to_dbfs gives for an amplitude of MIN_RMS is about
\* -100 dBFS (within 10 dB of it).
C9_FloorIsAboutMinus100 ==
    (pc = "dbfs_done" /\ rms = MIN_RMS)
        => FGe(dbfs, Fin(-1, 11, 1)) /\ FGe(Fin(-1, 90, 0), dbfs)

\* C10: at every point of the call every level pushed or returned is a number
\* at or above the floor 20 * log10(MIN_RMS), never -infinity or NaN.
C10_ResultsAtOrAboveFloor ==
    /\ \A i \in 1..Len(dbfs_results) : FGe(dbfs_results[i], FloorDb)
    /\ \A i \in 1..Len(result) : FGe(result[i], FloorDb)

C10_Witness ==
    /\ pc = "done"
    /\ Len(result) = 2
    /\ pcm_vec[1] = NaN
    /\ chunk_size_samples = 1
    /\ result[1] = FloorDb
    /\ result[2] # FloorDb

====
